---- MODULE Spec2Model ----
(***************************************************************************)
(* A model of the MangaDex client library: the Search operations (manga,   *)
(* author, GroupSearch, RandomSearch, AdvanceSearch) of                    *)
(* src/method/Search.py and the manga operations (FetchChapter,            *)
(* FetchChapterIMG) of src/method/Manga.py.                                *)
(*                                                                         *)
(* One call is followed from its invocation to its termination.  A call    *)
(* suspends only at an HTTP GET; the server's answer is a nondeterministic *)
(* input drawn from a small set of responses.  A second specification,     *)
(* SpecConcurrent, follows two call sites that construct an object and     *)
(* invoke an operation concurrently, and the root logger they share.       *)
(*                                                                         *)
(* Conventions for Python values:                                          *)
(*   - a str that the code builds (URL, message) is a sequence of tokens;  *)
(*     a str that the code only carries (id, name, file name) is an atom;  *)
(*   - a value that may be None / JSON null is wrapped: None = <<>>,       *)
(*     Some(v) = <<v>>;                                                    *)
(*   - a dict is a record; a missing key is a field outside its DOMAIN;    *)
(*   - a list is a sequence.                                               *)
(***************************************************************************)
EXTENDS Integers, Sequences, FiniteSets, TLC

VARIABLES
    pc,            \* "idle", "awaitAuthor", "await", "done"
    op,            \* the public operation invoked ("none" before the call)
    args,          \* its parameters
    sent,          \* the URLs of the GETs issued so far, in order
    resp,          \* the last response received
    outcome,       \* how the call ended: return value or exception
    shaped,        \* the output records built so far by the shaping loop
    openSessions,  \* HTTP sessions currently open
    jsonCalls,     \* number of response.json() invocations so far
    site,          \* SpecConcurrent: the call of each call site
    root,          \* the root logger of the logging module (process-wide)
    rootAccess     \* the call sites that have written / read the root logger

callVars == <<pc, op, args, sent, resp, outcome, shaped, openSessions, jsonCalls>>
siteVars == <<site, root, rootAccess>>

vars == <<pc, op, args, sent, resp, outcome, shaped, openSessions, jsonCalls,
          site, root, rootAccess>>

-----------------------------------------------------------------------------
(* Bounds *)

\* Longest `data` array a response carries.
MaxData == 2

-----------------------------------------------------------------------------
(* Python values *)

None == <<>>
Some(v) == <<v>>

Digit == <<"0", "1", "2", "3", "4", "5", "6", "7", "8", "9">>

\* str(n) for a non-negative int, as the f-strings format it.
RECURSIVE Str(_)
Str(n) == IF n < 10 THEN Digit[n + 1] ELSE Str(n \div 10) \o Digit[(n % 10) + 1]

\* urllib.parse.quote on a sequence of characters: a space is percent-encoded,
\* the unreserved characters of the model's inputs pass through.
quote(s) == [i \in 1..Len(s) |-> IF s[i] = " " THEN "%20" ELSE s[i]]

\* str.replace(old, new) on a token sequence in which `old` is one token.
replace(s, old, new) == [i \in 1..Len(s) |-> IF s[i] = old THEN new ELSE s[i]]

\* sep.join(parts): sep a token sequence, parts a sequence of atoms.
RECURSIVE join(_, _)
join(sep, parts) ==
    IF Len(parts) = 0 THEN <<>>
    ELSE IF Len(parts) = 1 THEN <<parts[1]>>
    ELSE <<parts[1]>> \o sep \o join(sep, Tail(parts))

-----------------------------------------------------------------------------
(* Exceptions *)

\* An exception object: its class, its args (each a token sequence) and the
\* exception that was being handled when it was raised (__context__).
Exc(cls, eargs) == [cls |-> cls, args |-> eargs, context |-> None]

\* repr of the args tuple, as str() of a multi-argument exception gives it.
RECURSIVE ReprArgs(_)
ReprArgs(eargs) ==
    IF Len(eargs) = 0 THEN <<>>
    ELSE <<"'">> \o eargs[1] \o <<"'">>
         \o (IF Len(eargs) > 1 THEN <<", ">> \o ReprArgs(Tail(eargs)) ELSE <<>>)

\* str(e) as the f-strings of the outer handlers format it.
StrExc(e) ==
    IF Len(e.args) = 0 THEN <<>>
    ELSE IF e.cls = "KeyError" THEN <<"'">> \o e.args[1] \o <<"'">>
    ELSE IF Len(e.args) = 1 THEN e.args[1]
    ELSE <<"(">> \o ReprArgs(e.args) \o <<")">>

KeyError(k) == Exc("KeyError", << <<k>> >>)
\* The text of the message depends on the interpreter; it names the variable.
UnboundLocalError(v) == Exc("UnboundLocalError", << <<v>> >>)
IndexError == Exc("IndexError", << <<"list index out of range">> >>)
\* json.JSONDecodeError, a ValueError.
JSONDecodeError == Exc("ValueError", << <<"Expecting value">> >>)

\* The classes caught by `except ValueError`.
IsValueError(e) == e.cls = "ValueError"

\* A variant of OuterExcept that lets the exception through unchanged.
OuterExceptReraise(prefix, e) == e

\* `except Exception as e: raise FetchErrorr(f"<prefix>{e}")`: every exception
\* raised inside the try block, the library's own kinds included, is replaced
\* by a FetchErrorr whose only argument is the formatted message.
OuterExcept(prefix, e) ==
    [cls |-> "FetchErrorr", args |-> << <<prefix>> \o StrExc(e) >>, context |-> Some(e)]

\* Outcomes of a call.
NoOutcome == [kind |-> "none"]
\* A returned value, with the Python type of the object returned.
ReturnList(v) == [kind |-> "return", type |-> "list", value |-> v]
ReturnDict(v) == [kind |-> "return", type |-> "dict", value |-> v]
Raise(e) == [kind |-> "raise", exc |-> e]

\* Results of a helper that may raise.
Ok(v) == [ok |-> TRUE, val |-> v]
Fail(e) == [ok |-> FALSE, exc |-> e]

-----------------------------------------------------------------------------
(* Responses of the server *)

NotJson == [json |-> FALSE]
Json(v) == [json |-> TRUE, val |-> v]

NoResp == [status |-> 0]

\* 200, a success status other than 200, and a client-error status.
Statuses == {200, 203, 404}

SeqsUpTo(S, n) == UNION {[1..k -> S] : k \in 0..n}

Min(S) == CHOOSE x \in S : \A y \in S : x <= y

Drop(r, k) == [x \in DOMAIN r \ {k} |-> r[x]]

\* Entries of the `errors` array of an error envelope.
Err1 == [id |-> "e-1", status |-> "400", title |-> "bad request", detail |-> "d1"]
Err2 == [id |-> "e-2", status |-> "503", title |-> "unavailable", detail |-> "d2"]

ErrBody(errors) == [result |-> "error", errors |-> errors]
OkBody(data) == [result |-> "ok", data |-> data]

ErrBodies == {ErrBody(<<Err1>>), ErrBody(<<Err2, Err1>>)}

\* Relationship entries.
Cover(f) == [type |-> "cover_art", attributes |-> [fileName |-> f]]
AuthorRel == [type |-> "author", attributes |-> [name |-> "au"]]
Group(n) == [type |-> "scanlation_group", attributes |-> [name |-> n]]
UserRel == [type |-> "user", attributes |-> [username |-> "u"]]

Tag(n) == [attributes |-> [name |-> [en |-> n]]]

FullAttrs ==
    [title |-> [en |-> "T"],
     altTitles |-> <<[en |-> "A1"], [ja |-> "J1"], [en |-> "A2"]>>,
     description |-> [en |-> "D"],
     year |-> Some(1999),
     tags |-> <<Tag("Action"), Tag("Comedy")>>,
     status |-> "ongoing"]

\* Attribute objects: complete, with a null year, with a title that has no
\* English entry, and with one of the optional keys absent.
MangaAttrs ==
    {FullAttrs,
     [FullAttrs EXCEPT !.year = None],
     [FullAttrs EXCEPT !.title = [ja |-> "J"]],
     Drop(FullAttrs, "year"),
     Drop(FullAttrs, "altTitles"),
     Drop(FullAttrs, "description")}

\* Relationship arrays of a manga item: none, one cover, and several covers
\* around another relationship.
MangaRels ==
    {<<>>,
     <<Cover("c1.jpg")>>,
     <<AuthorRel, Cover("c1.jpg"), Cover("c2.jpg")>>,
     <<Cover("c2.jpg"), AuthorRel, Cover("c1.jpg")>>}

MangaItem(id, rels, attrs) == [id |-> id, relationships |-> rels, attributes |-> attrs]

MangaItems ==
    {MangaItem("m1", rels, FullAttrs) : rels \in MangaRels}
    \cup {MangaItem("m2", <<Cover("c1.jpg")>>, a) : a \in MangaAttrs \ {FullAttrs}}

\* The responses an endpoint can give, okBodies being its successful bodies.
Responses(okBodies) ==
    {[status |-> 200, body |-> b] :
        b \in {NotJson} \cup {Json(e) : e \in ErrBodies} \cup {Json(o) : o \in okBodies}}
    \cup {[status |-> s, body |-> b] :
        s \in Statuses \ {200},
        b \in {NotJson, Json(ErrBody(<<Err1>>))}
              \cup {Json(o) : o \in {CHOOSE x \in okBodies : TRUE}}}

MangaListResponses == Responses({OkBody(d) : d \in SeqsUpTo(MangaItems, MaxData)})
MangaOneResponses == Responses({OkBody(m) : m \in MangaItems})

-----------------------------------------------------------------------------
(* URLs: a sequence of tokens, the first one the path up to and including  *)
(* "?", the query clauses separated by "&" tokens.                         *)

\* The clauses of the query string: the maximal runs of tokens between "&".
RECURSIVE SplitAmp(_, _)
SplitAmp(toks, cur) ==
    IF Len(toks) = 0 THEN <<cur>>
    ELSE IF Head(toks) = "&" THEN <<cur>> \o SplitAmp(Tail(toks), <<>>)
    ELSE SplitAmp(Tail(toks), Append(cur, Head(toks)))

Clauses(url) == IF Len(url) <= 1 THEN <<>> ELSE SplitAmp(Tail(url), <<>>)

ClausesWith(url, first) ==
    SelectSeq(Clauses(url), LAMBDA c : Len(c) > 0 /\ c[1] = first)

RatingClause(x) == <<"contentRating[]=", x>>
AllRatings ==
    RatingClause("safe") \o <<"&">> \o RatingClause("suggestive")
    \o <<"&">> \o RatingClause("erotica")

-----------------------------------------------------------------------------
(* Response shaping *)

\* A variant of FirstMatch that keeps the last match instead of the first.
RECURSIVE LastMatch(_, _)
LastMatch(rels, type) ==
    IF Len(rels) = 0 THEN None
    ELSE IF rels[Len(rels)].type = type THEN Some(rels[Len(rels)])
    ELSE LastMatch(SubSeq(rels, 1, Len(rels) - 1), type)

\* next((rel for rel in relationships if rel["type"] == type), None)
RECURSIVE FirstMatch(_, _)
FirstMatch(rels, type) ==
    IF Len(rels) = 0 THEN None
    ELSE IF Head(rels).type = type THEN Some(Head(rels))
    ELSE FirstMatch(Tail(rels), type)

\* cover_art["attributes"]["fileName"] if cover_art else "default_cover.jpg"
CoverId(rels) ==
    LET cover_art == FirstMatch(rels, "cover_art")
    IN  IF cover_art # None THEN cover_art[1].attributes.fileName
        ELSE "default_cover.jpg"

CoverSmallUrl(id, cover_id) ==
    IF cover_id # ""
    THEN Some(<<"https://mangadex.org/covers/", id, "/", cover_id, ".256.jpg">>)
    ELSE None

CoverLargeUrl(id, cover_id) ==
    IF cover_id # ""
    THEN Some(<<"https://mangadex.org/covers/", id, "/", cover_id>>)
    ELSE None

\* [x["en"] for x in alts if "en" in x]
EnglishOf(alts) ==
    LET en == SelectSeq(alts, LAMBDA x : "en" \in DOMAIN x)
    IN  [i \in 1..Len(en) |-> en[i].en]

\* [tag["attributes"]["name"]["en"] for tag in tags]
TagNames(tags) == [i \in 1..Len(tags) |-> tags[i].attributes.name.en]

\* d.get(k, default)
Get(d, k, default) == IF k \in DOMAIN d THEN d[k] ELSE default

\* The first key of `keys`, in order, that d[key] would raise KeyError for.
MissingKey(d, keys) ==
    LET bad == {i \in 1..Len(keys) : keys[i] \notin DOMAIN d}
    IN  IF bad = {} THEN None ELSE Some(keys[Min(bad)])

\* The body of the `for manga in data["data"]` loop of Search.manga: the
\* MangaInfo dict of one item, or the KeyError of the first subscript that
\* fails, the dict display being evaluated top to bottom.
ShapeManga(manga) ==
    LET top == MissingKey(manga, <<"id", "relationships", "attributes">>)
    IN  IF top # None THEN Fail(KeyError(top[1]))
        ELSE
        LET a == manga.attributes
            miss == MissingKey(a, <<"title", "altTitles", "description", "year",
                                    "tags", "status">>)
            cover_id == CoverId(manga.relationships)
        IN  IF miss # None THEN Fail(KeyError(miss[1]))
            ELSE Ok([id |-> manga.id,
                     title |-> Get(a.title, "en", "Unknown Title"),
                     altTitles |-> EnglishOf(a.altTitles),
                     description |-> Get(a.description, "en", ""),
                     year |-> a.year,
                     tags |-> TagNames(a.tags),
                     status |-> a.status,
                     CoverSmall |-> CoverSmallUrl(manga.id, cover_id),
                     CoverLarge |-> CoverLargeUrl(manga.id, cover_id)])

\* The same loop body in Search.AdvanceSearch.
ShapeAdvance(manga) ==
    LET top == MissingKey(manga, <<"id", "relationships", "attributes">>)
    IN  IF top # None THEN Fail(KeyError(top[1]))
        ELSE
        LET a == manga.attributes
            miss == MissingKey(a, <<"title", "altTitles", "description", "year",
                                    "tags", "status">>)
            cover_id == CoverId(manga.relationships)
        IN  IF miss # None THEN Fail(KeyError(miss[1]))
            ELSE Ok([id |-> manga.id,
                     title |-> Get(a.title, "en", "Unknown Title"),
                     altTitles |-> EnglishOf(a.altTitles),
                     description |-> Get(a.description, "en", ""),
                     year |-> a.year,
                     tags |-> TagNames(a.tags),
                     status |-> a.status,
                     CoverSmall |-> CoverSmallUrl(manga.id, cover_id),
                     CoverLarge |-> CoverLargeUrl(manga.id, cover_id)])

\* The MangaInfo dict of Search.RandomSearch: title["en"] is a subscript,
\* altTitles, year, tags and status are read with .get, description is not.
ShapeRandom(manga) ==
    LET top == MissingKey(manga, <<"id", "relationships", "attributes">>)
    IN  IF top # None THEN Fail(KeyError(top[1]))
        ELSE
        LET a == manga.attributes
            cover_id == CoverId(manga.relationships)
        IN  IF "title" \notin DOMAIN a THEN Fail(KeyError("title"))
            ELSE IF "en" \notin DOMAIN a.title THEN Fail(KeyError("en"))
            ELSE IF "description" \notin DOMAIN a THEN Fail(KeyError("description"))
            ELSE Ok([id |-> manga.id,
                     title |-> a.title.en,
                     altTitles |-> EnglishOf(Get(a, "altTitles", <<>>)),
                     description |-> Get(a.description, "en", ""),
                     year |-> Get(a, "year", None),
                     tags |-> TagNames(Get(a, "tags", <<>>)),
                     status |-> Get(a, "status", "Unknown"),
                     CoverSmall |-> CoverSmallUrl(manga.id, cover_id),
                     CoverLarge |-> CoverLargeUrl(manga.id, cover_id)])

\* A `for item in data["data"]` loop, res[i] being what the loop body gives
\* for the i-th item: the records built before the first item whose shaping
\* raises, and that exception if any.
ShapeLoop(res) ==
    LET bad == {i \in 1..Len(res) : ~res[i].ok}
        n == IF bad = {} THEN Len(res) ELSE Min(bad) - 1
    IN  [shaped |-> [i \in 1..n |-> res[i].val],
         exc |-> IF bad = {} THEN None ELSE Some(res[Min(bad)].exc)]

-----------------------------------------------------------------------------
(* The part of a handler that follows the GET.  Each gives the outcome of  *)
(* the try block (before the outer handler), the records shaped and the    *)
(* number of response.json() calls.                                        *)

Step(out, recs, parsed) == [out |-> out, shaped |-> recs, parsed |-> parsed]

ConnectionError(what, status) ==
    Exc("ConnectionError", << <<"Failed to fetch ", what, ". Status code: ", Str(status)>> >>)

\* raise FetchErrorr(ErrorStatus, ErorrTitle, detail, IDErr), the fields read
\* from data["errors"][0] with .get and a default.
ApiError(details) ==
    Exc("FetchErrorr",
        << <<Get(details, "status", "Unknown")>>,
           <<Get(details, "title", "Unknown Error")>>,
           <<Get(details, "detail", "No details provided")>>,
           <<Get(details, "id", "Unknown ID")>> >>)

\* The status check, response.json() and the check of data["result"] that
\* manga, author, GroupSearch and RandomSearch each repeat: the exception
\* raised, or the parsed body.
Envelope(r, what) ==
    IF r.status # 200 THEN Step(Raise(ConnectionError(what, r.status)), <<>>, 0)
    ELSE IF ~r.body.json THEN Step(Raise(JSONDecodeError), <<>>, 1)
    ELSE IF "result" \notin DOMAIN r.body.val THEN Step(Raise(KeyError("result")), <<>>, 1)
    ELSE IF r.body.val.result = "error"
         THEN Step(Raise(ApiError(r.body.val.errors[1])), <<>>, 1)
    ELSE Step(ReturnDict(r.body.val), <<>>, 1)

\* Search.manga after the GET: the loop assigns MangaInfo for each item and
\* never appends to MangaList; the value returned is the MangaInfo of the
\* last item, a name that is unbound when `data` is empty.
MangaAfterGet(r) ==
    LET env == Envelope(r, "manga")
    IN  IF env.out.kind = "raise" THEN env
        ELSE
        LET items == env.out.value.data
            loop == ShapeLoop([i \in 1..Len(items) |-> ShapeManga(items[i])])
        IN  IF loop.exc # None THEN Step(Raise(loop.exc[1]), loop.shaped, 1)
            ELSE IF Len(loop.shaped) = 0
                 THEN Step(Raise(UnboundLocalError("MangaInfo")), <<>>, 1)
            ELSE Step(ReturnDict(loop.shaped[Len(loop.shaped)]), loop.shaped, 1)

\* Search.RandomSearch after the GET: data["data"] is one manga object.
RandomAfterGet(r) ==
    LET env == Envelope(r, "Radnom Manga")
    IN  IF env.out.kind = "raise" THEN env
        ELSE
        LET one == ShapeRandom(env.out.value.data)
        IN  IF ~one.ok THEN Step(Raise(one.exc), <<>>, 1)
            ELSE Step(ReturnDict(one.val), <<one.val>>, 1)

-----------------------------------------------------------------------------
(* Authors and groups *)

AuthorSocialMedia ==
    <<"twitter", "pixiv", "melonBook", "fanBox", "booth", "namicomi", "nicoVideo",
      "skeb", "fantia", "tumblr", "youtube", "weibo", "naver", "website">>

GroupSocialMedia ==
    <<"website", "ircServer", "ircChannel", "discord", "contactEmail", "twitter",
      "mangaUpdates">>

Range(s) == {s[i] : i \in DOMAIN s}

\* The `for field in SocialMedia` loop: value = attributes.get(field); the
\* field is kept if value is not None and value != "None".
SocialMediaOf(attrs, fields) ==
    LET kept == {f \in Range(fields) :
                    LET value == Get(attrs, f, None)
                    IN  value # None /\ value # Some("None")}
    IN  [f \in kept |-> attrs[f][1]]

ShapeAuthor(author) ==
    LET top == MissingKey(author, <<"id", "attributes">>)
    IN  IF top # None THEN Fail(KeyError(top[1]))
        ELSE IF "name" \notin DOMAIN author.attributes THEN Fail(KeyError("name"))
        ELSE Ok([id |-> author.id,
                 name |-> author.attributes.name,
                 biography |-> Get(author.attributes, "biography", <<>>),
                 social_media |-> SocialMediaOf(author.attributes, AuthorSocialMedia)])

ShapeGroup(group) ==
    LET top == MissingKey(group, <<"id", "attributes">>)
    IN  IF top # None THEN Fail(KeyError(top[1]))
        ELSE IF "name" \notin DOMAIN group.attributes THEN Fail(KeyError("name"))
        ELSE Ok([id |-> group.id,
                 name |-> group.attributes.name,
                 altNames |-> Get(group.attributes, "altNames", <<>>),
                 social_media |-> SocialMediaOf(group.attributes, GroupSocialMedia)])

AuthorItems ==
    {[id |-> "a1",
      attributes |-> [name |-> "Oda", biography |-> [en |-> "bio"],
                      twitter |-> Some("tw"), pixiv |-> None, website |-> Some("")]],
     [id |-> "a2",
      attributes |-> [name |-> "Odd", youtube |-> Some("None")]]}

GroupItems ==
    {[id |-> "g1",
      attributes |-> [name |-> "Scans", altNames |-> <<"S1", "S2">>,
                      discord |-> Some("dc"), website |-> None, twitter |-> Some("")]],
     [id |-> "g2",
      attributes |-> [name |-> "Other", ircServer |-> Some("None")]]}

AuthorResponses == Responses({OkBody(d) : d \in SeqsUpTo(AuthorItems, MaxData)})
GroupResponses == Responses({OkBody(d) : d \in SeqsUpTo(GroupItems, MaxData)})

\* Search.author after the GET: every shaped record is appended to AuthorList.
AuthorAfterGet(r) ==
    LET env == Envelope(r, "author")
    IN  IF env.out.kind = "raise" THEN env
        ELSE
        LET items == env.out.value.data
            loop == ShapeLoop([i \in 1..Len(items) |-> ShapeAuthor(items[i])])
        IN  IF loop.exc # None THEN Step(Raise(loop.exc[1]), loop.shaped, 1)
            ELSE Step(ReturnList(loop.shaped), loop.shaped, 1)

\* Search.GroupSearch after the GET.
GroupAfterGet(r) ==
    LET env == Envelope(r, "Group")
    IN  IF env.out.kind = "raise" THEN env
        ELSE
        LET items == env.out.value.data
            loop == ShapeLoop([i \in 1..Len(items) |-> ShapeGroup(items[i])])
        IN  IF loop.exc # None THEN Step(Raise(loop.exc[1]), loop.shaped, 1)
            ELSE Step(ReturnList(loop.shaped), loop.shaped, 1)

-----------------------------------------------------------------------------
(* Chapters *)

FullChapterAttrs ==
    [chapter |-> Some("12"), volume |-> Some("3"),
     translatedLanguage |-> Some("en"), title |-> Some("Ch")]

ChapterAttrs ==
    {FullChapterAttrs,
     [FullChapterAttrs EXCEPT !.chapter = None, !.volume = None],
     [translatedLanguage |-> None],
     [chapter |-> Some("1")]}

ChapterRels ==
    {<<>>,
     <<UserRel>>,
     <<UserRel, Group("g1"), Group("g2")>>,
     <<Group("g2"), UserRel, Group("g1")>>}

ChapterItem(id, rels, attrs) == [id |-> id, relationships |-> rels, attributes |-> attrs]

ChapterItems ==
    {ChapterItem("c1", rels, FullChapterAttrs) : rels \in ChapterRels}
    \cup {ChapterItem("c2", <<Group("g1")>>, a) : a \in ChapterAttrs \ {FullChapterAttrs}}

FeedResponses == Responses({OkBody(d) : d \in SeqsUpTo(ChapterItems, MaxData)})

ImageFiles == {"a.png", "b.png"}

AtHomeBody(files) ==
    [result |-> "ok", baseUrl |-> "https://X", chapter |-> [hash |-> "H", data |-> files]]

\* At-home bodies: the page lists under one base URL and hash, one body with
\* another base URL and hash, and bodies with the `chapter` object, or with
\* everything but `result`, absent.
AtHomeBodies ==
    {AtHomeBody(f) : f \in SeqsUpTo(ImageFiles, MaxData)}
    \cup {[result |-> "ok", baseUrl |-> "https://Y",
           chapter |-> [hash |-> "K", data |-> <<"b.png", "a.png">>]],
          [result |-> "ok", baseUrl |-> "https://X"],
          [result |-> "ok"]}

AtHomeResponses == Responses(AtHomeBodies)

\* The loop over chapter.get("relationships", []): the name of the first
\* scanlation_group, the loop ending at the first one found.
RECURSIVE PublisherOf(_)
PublisherOf(rels) ==
    IF Len(rels) = 0 THEN None
    ELSE IF Head(rels).type = "scanlation_group"
         THEN Some(Get(Head(rels).attributes, "name", "Unknown Publisher"))
    ELSE PublisherOf(Tail(rels))

\* The body of the `for chapter in data.get("data", [])` loop.
ShapeChapter(chapter) ==
    LET attributes == Get(chapter, "attributes", <<>>)
    IN  Ok([ChID |-> IF "id" \in DOMAIN chapter THEN Some(chapter.id) ELSE None,
            CHNum |-> Get(attributes, "chapter", Some("None")),
            VolNum |-> Get(attributes, "volume", Some("None")),
            TLLang |-> Get(attributes, "translatedLanguage", Some("None")),
            title |-> Get(attributes, "title", Some("Unknown Title")),
            PublisherName |-> PublisherOf(Get(chapter, "relationships", <<>>))])

JSONError == Exc("JSONError", << <<"Failed to parse Manga Payload.">> >>)

\* `except ValueError as json_error: raise JSONError(...) from json_error`
\* around the parsing and shaping; any other exception passes through.
InnerExcept(e) ==
    IF IsValueError(e) THEN [JSONError EXCEPT !.context = Some(e)] ELSE e

\* manga.FetchChapter after the GET: no check of data["result"].
FetchChapterAfterGet(r) ==
    IF r.status # 200
    THEN Step(Raise(ConnectionError("Manga Payload", r.status)), <<>>, 0)
    ELSE IF ~r.body.json THEN Step(Raise(InnerExcept(JSONDecodeError)), <<>>, 1)
    ELSE
    LET items == Get(r.body.val, "data", <<>>)
        loop == ShapeLoop([i \in 1..Len(items) |-> ShapeChapter(items[i])])
    IN  IF loop.exc # None THEN Step(Raise(InnerExcept(loop.exc[1])), loop.shaped, 1)
        ELSE Step(ReturnList(loop.shaped), loop.shaped, 1)

\* A variant of ImageUrlOf without the "/data/" segment.
ImageUrlFlat(BaseUrl, CHHash, image) == <<BaseUrl, "/", CHHash, "/", image>>

\* f"{BaseUrl}/data/{CHHash}/{image}"
ImageUrlOf(BaseUrl, CHHash, image) == <<BaseUrl, "/data/", CHHash, "/", image>>

\* manga.FetchChapterIMG after the GET: no check of data["result"].
FetchChapterIMGAfterGet(r) ==
    IF r.status # 200
    THEN Step(Raise(ConnectionError("Manga Payload", r.status)), <<>>, 0)
    ELSE IF ~r.body.json THEN Step(Raise(InnerExcept(JSONDecodeError)), <<>>, 1)
    ELSE
    LET data == r.body.val
        BaseUrl == Get(data, "baseUrl", "")
        CHHash == Get(Get(data, "chapter", <<>>), "hash", "")
        CHData == Get(Get(data, "chapter", <<>>), "data", <<>>)
        ImageUrl == [i \in 1..Len(CHData) |-> ImageUrlOf(BaseUrl, CHHash, CHData[i])]
    IN  Step(ReturnList(ImageUrl), ImageUrl, 1)

-----------------------------------------------------------------------------
(* Tag and sort lookup (TagAdvance) *)

\* TagAdvance().ShortTypeID: the "field direction" string of a sort code, as
\* the table of the AdvanceSearch docstring lists them; a code outside the
\* table fails.
ShortTypes ==
    [c \in 2..13 |->
        CASE c = 2 -> <<"latestUploadedChapter", " ", "desc">>
          [] c = 3 -> <<"latestUploadedChapter", " ", "asc">>
          [] c = 4 -> <<"title", " ", "asc">>
          [] c = 5 -> <<"title", " ", "desc">>
          [] c = 6 -> <<"rating", " ", "desc">>
          [] c = 7 -> <<"rating", " ", "asc">>
          [] c = 8 -> <<"followedCount", " ", "desc">>
          [] c = 9 -> <<"followedCount", " ", "asc">>
          [] c = 10 -> <<"createdAt", " ", "desc">>
          [] c = 11 -> <<"createdAt", " ", "asc">>
          [] c = 12 -> <<"year", " ", "asc">>
          [] c = 13 -> <<"year", " ", "desc">>]

InvalidParameter(what) == Exc("InvalidParameter", << <<what>> >>)

ShortTypeID(code) ==
    IF code \in DOMAIN ShortTypes THEN Ok(ShortTypes[code])
    ELSE Fail(InvalidParameter("sort"))

\* TagAdvance().FilterTagsID: the identifiers of the named tags, in order; a
\* name without an entry fails.
TagIds == [n \in {"Action", "Comedy"} |-> IF n = "Action" THEN "id-action" ELSE "id-comedy"]

FilterTagsID(names) ==
    IF \E i \in 1..Len(names) : names[i] \notin DOMAIN TagIds
    THEN Fail(InvalidParameter("tag"))
    ELSE Ok([i \in 1..Len(names) |-> TagIds[names[i]]])

-----------------------------------------------------------------------------
(* Query building *)

\* A variant of CntnRateIfChain that binds CntnRate to "" first.
CntnRateWithDefault(contentRating) ==
    CASE contentRating = "all" -> Some(AllRatings)
      [] contentRating = "safe" -> Some(RatingClause("safe"))
      [] contentRating = "suggestive" -> Some(RatingClause("suggestive"))
      [] contentRating = "erotica" -> Some(RatingClause("erotica"))
      [] OTHER -> Some(<<>>)

\* The chain of `if contentRating == ...` of manga and RandomSearch: CntnRate
\* is assigned for the four known values only; None stands for "unbound".
CntnRateIfChain(contentRating) ==
    CASE contentRating = "all" -> Some(AllRatings)
      [] contentRating = "safe" -> Some(RatingClause("safe"))
      [] contentRating = "suggestive" -> Some(RatingClause("suggestive"))
      [] contentRating = "erotica" -> Some(RatingClause("erotica"))
      [] OTHER -> None

\* ContentRattingVelue.get(contentRating, "") of AdvanceSearch.
CntnRateGet(contentRating) ==
    CASE contentRating = "all" -> AllRatings
      [] contentRating = "safe" -> RatingClause("safe")
      [] contentRating = "suggestive" -> RatingClause("suggestive")
      [] contentRating = "erotica" -> RatingClause("erotica")
      [] OTHER -> <<>>

DemoClause(x) == <<"publicationDemographic[]=", x>>

\* DemographicVelue.get(Demographic, "")
DemographicGet(Demographic) ==
    CASE Demographic = None -> DemoClause("none")
      [] Demographic = Some("all") ->
            DemoClause("shoujo") \o <<"&">> \o DemoClause("seinen") \o <<"&">>
            \o DemoClause("shounen") \o <<"&">> \o DemoClause("josei") \o <<"&">>
            \o DemoClause("none")
      [] Demographic \in {Some("shoujo"), Some("shounen"), Some("seinen"), Some("josei")} ->
            DemoClause(Demographic[1])
      [] OTHER -> <<>>

\* MaxSearch / MaxChapters: `if X is None: X = default`.
OrDefault(x, default) == IF x = None THEN default ELSE x[1]

\* The URL of Search.manga, or the UnboundLocalError of reading CntnRate.
MangaUrl(title, contentRating, MaxSearch) ==
    LET CntnRate == CntnRateIfChain(contentRating)
    IN  IF CntnRate = None THEN Fail(UnboundLocalError("CntnRate"))
        ELSE Ok(<<"https://api.mangadex.org/manga?", "title=", "%20">> \o quote(title)
                \o <<"&", "limit=", Str(OrDefault(MaxSearch, 5)), "&">> \o CntnRate[1]
                \o <<"&", "includes[]=", "cover_art",
                     "&", "order[", "relevance", "]=", "desc">>)

\* The URL of Search.RandomSearch.
RandomUrl(contentRating) ==
    LET CntnRate == CntnRateIfChain(contentRating)
    IN  IF CntnRate = None THEN Fail(UnboundLocalError("CntnRate"))
        ELSE Ok(<<"https://api.mangadex.org/manga/random?">> \o CntnRate[1]
                \o <<"&", "includes[]=", "artist", "&", "includes[]=", "author",
                     "&", "includes[]=", "cover_art">>)

AuthorUrl(AuthorName, MaxSearch) ==
    <<"https://api.mangadex.org/author?", "name=">> \o quote(AuthorName)
    \o <<"&", "limit=", Str(OrDefault(MaxSearch, 5))>>

GroupUrl(GroupName, MaxSearch) ==
    <<"https://api.mangadex.org/group?", "name=">> \o quote(GroupName)
    \o <<"&", "limit=", Str(OrDefault(MaxSearch, 5)), "&", "includes[]=", "leader">>

FeedUrl(mangaID, MaxChapters) ==
    <<"https://api.mangadex.org/manga/" \o mangaID \o "/feed?",
      "limit=", Str(OrDefault(MaxChapters, 40)),
      "&", "includes[]=", "scanlation_group", "&", "includes[]=", "user",
      "&", "order[", "volume", "]=", "desc", "&", "order[", "chapter", "]=", "desc",
      "&", "offset=", "0">>
    \o <<"&">> \o AllRatings \o <<"&">> \o RatingClause("pornographic")

AtHomeUrl(ChapterID) == <<"https://api.mangadex.org/at-home/server/" \o ChapterID>>

\* order = f"order[{velueShort.replace(' ', ']=')}]"
OrderClause(velueShort) == <<"order[">> \o replace(velueShort, " ", "]=") \o <<"]">>

\* Python truthiness of Shortby (None and 0 are false).
Truthy(x) == x # None /\ x[1] # 0

\* AdvanceSearch from the sort lookup to the end of the URL construction,
\* IdAuthor being None or the id found by the author lookup: the URL, or the
\* exception of a failed lookup.
AdvanceUrl(a, IdAuthor) ==
    LET sort == IF Truthy(a.Shortby) /\ a.Shortby # Some(1)
                THEN ShortTypeID(a.Shortby[1]) ELSE Ok(<<>>)
        names == IF a.TagName.kind = "str"
                 THEN (IF a.TagName.s = "" THEN <<>> ELSE <<a.TagName.s>>)
                 ELSE IF a.TagName.kind = "list" THEN a.TagName.l ELSE <<>>
        tags == IF Len(names) > 0 THEN FilterTagsID(names) ELSE Ok(<<>>)
    IN  IF ~sort.ok THEN sort
        ELSE IF ~tags.ok THEN tags
        ELSE Ok(<<"https://api.mangadex.org/manga?", "limit=", Str(a.MaxSearch),
                  "&", "offset=", "0", "&", "includes[]=", "cover_art", "&">>
                \o CntnRateGet(a.contentRating)
                \o <<"&", "hasAvailableChapters=",
                     IF a.HasAvailableChapters THEN "true" ELSE "false",
                     "&", "includedTagsMode=", "AND", "&", "excludedTagsMode=", "OR", "&">>
                \o DemographicGet(a.Demographic)
                \o (IF Len(names) > 0
                    THEN <<"&", "includedTags[]=">>
                         \o join(<<"&", "includedTags[]=">>, tags.val)
                    ELSE <<>>)
                \o (IF a.Query # None /\ a.Query # Some(<<>>)
                    THEN <<"&", "title=">> \o quote(a.Query[1]) ELSE <<>>)
                \o (IF Len(sort.val) > 0 THEN <<"&">> \o OrderClause(sort.val) ELSE <<>>)
                \o (IF IdAuthor # None THEN <<"&", "artists[]=", IdAuthor[1]>> ELSE <<>>))

AuthorPrefix == "An error occurred while fetching author: "
AdvancePrefix == "An error occurred while performing advanced search: "

\* A variant of AuthorIdOf that leaves IdAuthor at None for an empty list.
AuthorIdUnchecked(SearchAuthor) ==
    IF Len(SearchAuthor) = 0 THEN Ok(None) ELSE Ok(Some(SearchAuthor[1].id))

\* `IdAuthor = SearchAuthor[0].get("id")` inside its own try: any failure is
\* re-raised as FetchErrorr("Error fetching author ID: ...").
AuthorIdOf(SearchAuthor) ==
    IF Len(SearchAuthor) = 0
    THEN Fail([cls |-> "FetchErrorr",
               args |-> << <<"Error fetching author ID: ">> \o StrExc(IndexError) >>,
               context |-> Some(IndexError)])
    ELSE Ok(Some(SearchAuthor[1].id))

\* response.raise_for_status(): an error for a status that is not a success
\* or a redirect.
RaisesForStatus(status) == status < 200 \/ status >= 400

HTTPError(status) == Exc("HTTPError", << <<"HTTP Error ", Str(status)>> >>)

\* Search.AdvanceSearch after the GET of the manga search.
AdvanceAfterGet(r) ==
    IF RaisesForStatus(r.status) THEN Step(Raise(HTTPError(r.status)), <<>>, 0)
    ELSE IF ~r.body.json THEN Step(Raise(JSONDecodeError), <<>>, 1)
    ELSE IF "result" \notin DOMAIN r.body.val THEN Step(Raise(KeyError("result")), <<>>, 1)
    ELSE IF r.body.val.result = "error"
         THEN Step(Raise(ApiError(r.body.val.errors[1])), <<>>, 1)
    ELSE
    LET items == r.body.val.data
        loop == ShapeLoop([i \in 1..Len(items) |-> ShapeAdvance(items[i])])
    IN  IF loop.exc # None THEN Step(Raise(loop.exc[1]), loop.shaped, 1)
        ELSE IF Len(loop.shaped) = 0
             THEN Step(Raise(UnboundLocalError("MangaInfo")), <<>>, 1)
        ELSE Step(ReturnDict(loop.shaped[Len(loop.shaped)]), loop.shaped, 1)

-----------------------------------------------------------------------------
(* Inputs of the calls *)

Names == {<<"o", "d", "a">>, <<"o", " ", "d">>}
Ratings == {"all", "safe", "suggestive", "erotica", "pornographic"}
Limits == {None, Some(3)}
Ids == {"id-1"}

\* None, 0, the codes of the table and a code beyond it.
Shortbys == {None} \cup {Some(c) : c \in 0..14}

TagNameArgs ==
    {[kind |-> "none"],
     [kind |-> "str", s |-> "Action"],
     [kind |-> "list", l |-> <<"Comedy", "Action">>],
     [kind |-> "list", l |-> <<"Action", "Bogus">>]}

AdvanceDefaults ==
    [Query |-> None, TagName |-> [kind |-> "none"], SearchByAuthor |-> None,
     MaxSearch |-> 1, contentRating |-> "all", Demographic |-> None,
     HasAvailableChapters |-> TRUE, Shortby |-> None]

\* The parameter combinations of AdvanceSearch: every sort code with and
\* without an author; the tag, author, rating and sort filters together; the
\* parameters that only add a clause.
AdvanceArgs ==
    {[AdvanceDefaults EXCEPT !.Shortby = c, !.SearchByAuthor = au] :
        c \in Shortbys, au \in {None, Some(<<"o", " ", "d">>)}}
    \cup {[AdvanceDefaults EXCEPT !.TagName = t, !.SearchByAuthor = au,
                                 !.contentRating = cr, !.Shortby = c] :
        t \in TagNameArgs, au \in {None, Some(<<"o", " ", "d">>)},
        cr \in Ratings, c \in {None, Some(14)}}
    \cup {[AdvanceDefaults EXCEPT !.Query = q, !.Demographic = d,
                                 !.HasAvailableChapters = h, !.MaxSearch = m] :
        q \in {None, Some(<<>>), Some(<<"o", " ", "p">>)},
        d \in {None, Some("all"), Some("shounen"), Some("kids")},
        h \in BOOLEAN, m \in {1, 3}}

-----------------------------------------------------------------------------
(* The root logger and the call sites *)

\* The root logger before any configuration, and as an application may have
\* configured it before it uses the library.
RootUnconfigured == [handlers |-> <<>>, level |-> "WARNING"]
RootByApplication == [handlers |-> <<"FileHandler">>, level |-> "ERROR"]

\* logging.basicConfig(level=logging.INFO): a root logger without handlers
\* gets a StreamHandler and the level; one that has handlers is left alone.
basicConfig(r) ==
    IF r.handlers = <<>> THEN [handlers |-> <<"StreamHandler">>, level |-> "INFO"] ELSE r

Sites == {"A", "B"}

\* A call site before it has constructed its Search or manga object.
NewSite ==
    [pc |-> "new", cls |-> "none", op |-> "none", args |-> <<>>, sent |-> <<>>,
     resp |-> NoResp, outcome |-> NoOutcome]

NoAccess == [writers |-> {}, readers |-> {}]

-----------------------------------------------------------------------------
(* The calls *)

Init ==
    /\ pc = "idle"
    /\ op = "none"
    /\ args = <<>>
    /\ sent = <<>>
    /\ resp = NoResp
    /\ outcome = NoOutcome
    /\ shaped = <<>>
    /\ openSessions = 0
    /\ jsonCalls = 0
    /\ site = [p \in Sites |-> NewSite]
    /\ root = RootUnconfigured
    /\ rootAccess = NoAccess

\* A variant of ExitSession that leaves the session open.
ExitSessionSkipped(n) == n

\* `with Session(impersonate="chrome120") as s`: the number of open sessions
\* after the block is entered, and after it is left (by a return or by an
\* exception).
EnterSession(n) == n + 1
ExitSession(n) == n - 1

\* A call enters `with Session(...) as s` and either issues its GET and
\* suspends, or fails while building the URL: the outer handler wraps the
\* exception and the session is released.  AdvanceSearch builds its URL before
\* it opens a session, so a failure there leaves no session to release.
Start(name, a, built, prefix) ==
    /\ op' = name
    /\ args' = a
    /\ UNCHANGED <<resp, shaped, jsonCalls>>
    /\ UNCHANGED siteVars
    /\ IF built.ok
       THEN /\ sent' = Append(sent, built.val)
            /\ pc' = "await"
            /\ openSessions' = EnterSession(openSessions)
            /\ UNCHANGED outcome
       ELSE /\ outcome' = Raise(OuterExcept(prefix, built.exc))
            /\ pc' = "done"
            /\ openSessions' = IF name = "AdvanceSearch" THEN openSessions
                               ELSE ExitSession(EnterSession(openSessions))
            /\ UNCHANGED sent

\* The response arrives and the handler runs to its end: the outer handler
\* wraps whatever the try block raised, and the session is released.
Finish(r, step, prefix) ==
    /\ resp' = r
    /\ shaped' = step.shaped
    /\ jsonCalls' = jsonCalls + step.parsed
    /\ outcome' = IF step.out.kind = "raise"
                  THEN Raise(OuterExcept(prefix, step.out.exc))
                  ELSE step.out
    /\ openSessions' = ExitSession(openSessions)
    /\ pc' = "done"
    /\ UNCHANGED <<op, args, sent>>
    /\ UNCHANGED siteVars

manga ==
    \E title \in Names, contentRating \in Ratings, MaxSearch \in Limits :
        /\ pc = "idle"
        /\ Start("manga",
              [title |-> title, contentRating |-> contentRating, MaxSearch |-> MaxSearch],
              MangaUrl(title, contentRating, MaxSearch),
              "An error occurred while fetching manga: ")

mangaResponse ==
    \E r \in MangaListResponses :
        /\ pc = "await"
        /\ op = "manga"
        /\ Finish(r, MangaAfterGet(r), "An error occurred while fetching manga: ")

author ==
    \E AuthorName \in Names, MaxSearch \in Limits :
        /\ pc = "idle"
        /\ Start("author", [AuthorName |-> AuthorName, MaxSearch |-> MaxSearch],
              Ok(AuthorUrl(AuthorName, MaxSearch)), AuthorPrefix)

authorResponse ==
    \E r \in AuthorResponses :
        /\ pc = "await"
        /\ op = "author"
        /\ Finish(r, AuthorAfterGet(r), AuthorPrefix)

GroupSearch ==
    \E GroupName \in Names, MaxSearch \in Limits :
        /\ pc = "idle"
        /\ Start("GroupSearch", [GroupName |-> GroupName, MaxSearch |-> MaxSearch],
              Ok(GroupUrl(GroupName, MaxSearch)),
              "An error occurred while fetching group: ")

GroupSearchResponse ==
    \E r \in GroupResponses :
        /\ pc = "await"
        /\ op = "GroupSearch"
        /\ Finish(r, GroupAfterGet(r), "An error occurred while fetching group: ")

RandomSearch ==
    \E contentRating \in Ratings :
        /\ pc = "idle"
        /\ Start("RandomSearch", [contentRating |-> contentRating],
              RandomUrl(contentRating), "An error occurred while fetching manga: ")

RandomSearchResponse ==
    \E r \in MangaOneResponses :
        /\ pc = "await"
        /\ op = "RandomSearch"
        /\ Finish(r, RandomAfterGet(r),
               "An error occurred while fetching manga: ")

FetchChapter ==
    \E mangaID \in Ids, MaxChapters \in Limits :
        /\ pc = "idle"
        /\ Start("FetchChapter", [mangaID |-> mangaID, MaxChapters |-> MaxChapters],
              Ok(FeedUrl(mangaID, MaxChapters)),
              "An error occurred while fetching Manga Payload: ")

FetchChapterResponse ==
    \E r \in FeedResponses :
        /\ pc = "await"
        /\ op = "FetchChapter"
        /\ Finish(r, FetchChapterAfterGet(r),
               "An error occurred while fetching Manga Payload: ")

FetchChapterIMG ==
    \E ChapterID \in Ids :
        /\ pc = "idle"
        /\ Start("FetchChapterIMG", [ChapterID |-> ChapterID],
              Ok(AtHomeUrl(ChapterID)),
              "An error occurred while fetching Manga Payload: ")

FetchChapterIMGResponse ==
    \E r \in AtHomeResponses :
        /\ pc = "await"
        /\ op = "FetchChapterIMG"
        /\ Finish(r, FetchChapterIMGAfterGet(r),
               "An error occurred while fetching Manga Payload: ")

\* AdvanceSearch up to its first GET.  With SearchByAuthor it awaits
\* self.author(AuthorName=SearchByAuthor, MaxSearch=1), which opens a session
\* and issues the author GET; without, it builds the URL and issues the manga
\* GET, or fails in the lookups.
AdvanceSearch ==
    \E a \in AdvanceArgs :
        /\ pc = "idle"
        /\ IF a.SearchByAuthor # None
           THEN /\ op' = "AdvanceSearch"
                /\ args' = a
                /\ sent' = Append(sent, AuthorUrl(a.SearchByAuthor[1], Some(1)))
                /\ openSessions' = EnterSession(openSessions)
                /\ pc' = "awaitAuthor"
                /\ UNCHANGED <<resp, outcome, shaped, jsonCalls>>
                /\ UNCHANGED siteVars
           ELSE Start("AdvanceSearch", a, AdvanceUrl(a, None), AdvancePrefix)

\* The author lookup answers: author() ends (its session is released); its
\* exception propagates into the outer handler of AdvanceSearch, an empty
\* list fails in the extraction of the id; otherwise AdvanceSearch builds the
\* URL and issues the manga GET in a session of its own.
AdvanceSearchAuthorResponse ==
    \E r \in AuthorResponses :
        LET step == AuthorAfterGet(r)
            id == IF step.out.kind = "raise"
                  THEN Fail(OuterExcept(AuthorPrefix, step.out.exc))
                  ELSE AuthorIdOf(step.out.value)
            built == IF id.ok THEN AdvanceUrl(args, id.val) ELSE id
        IN  /\ pc = "awaitAuthor"
            /\ jsonCalls' = jsonCalls + step.parsed
            /\ resp' = r
            /\ shaped' = step.shaped
            /\ UNCHANGED <<op, args>>
            /\ UNCHANGED siteVars
            /\ IF built.ok
               THEN /\ sent' = Append(sent, built.val)
                    /\ pc' = "await"
                    /\ openSessions' = EnterSession(ExitSession(openSessions))
                    /\ UNCHANGED outcome
               ELSE /\ outcome' = Raise(OuterExcept(AdvancePrefix, built.exc))
                    /\ pc' = "done"
                    /\ openSessions' = ExitSession(openSessions)
                    /\ UNCHANGED sent

AdvanceSearchResponse ==
    \E r \in MangaListResponses :
        /\ pc = "await"
        /\ op = "AdvanceSearch"
        /\ Finish(r, AdvanceAfterGet(r), AdvancePrefix)

Next ==
    \/ manga
    \/ mangaResponse
    \/ author
    \/ authorResponse
    \/ GroupSearch
    \/ GroupSearchResponse
    \/ RandomSearch
    \/ RandomSearchResponse
    \/ FetchChapter
    \/ FetchChapterResponse
    \/ FetchChapterIMG
    \/ FetchChapterIMGResponse
    \/ AdvanceSearch
    \/ AdvanceSearchAuthorResponse
    \/ AdvanceSearchResponse

Spec == Init /\ [][Next]_vars

-----------------------------------------------------------------------------
(* Two call sites.  Each constructs a Search or a manga object and invokes  *)
(* one operation on it; the steps of the two interleave.  A call keeps its  *)
(* parameters, URL and response in local variables; the objects have no     *)
(* attributes; the root logger belongs to the process.                      *)

\* The calls a site makes: Search.manga with a known and an unknown rating,
\* manga.FetchChapterIMG.
ConcurrentCalls(cls) ==
    IF cls = "Search"
    THEN {[op |-> "manga",
           args |-> [title |-> <<"o", "d", "a">>, contentRating |-> cr, MaxSearch |-> m]] :
             cr \in {"safe", "pornographic"}, m \in Limits}
    ELSE {[op |-> "FetchChapterIMG", args |-> [ChapterID |-> id]] : id \in Ids}

\* The responses given to a site: failures, and successes of at most one item
\* for manga.
ConcurrentResponses(o) ==
    IF o = "manga"
    THEN {r \in MangaListResponses :
            \/ r.status # 200
            \/ ~r.body.json
            \/ r.body.val.result = "error"
            \/ Len(r.body.val.data) <= 1}
    ELSE AtHomeResponses

\* What the operation does when it runs alone: the URL it builds, the
\* outcome of its try block for a response, the prefix of its outer handler.
UrlOf(o, a) ==
    IF o = "manga" THEN MangaUrl(a.title, a.contentRating, a.MaxSearch)
    ELSE Ok(AtHomeUrl(a.ChapterID))

AfterGetOf(o, r) == IF o = "manga" THEN MangaAfterGet(r) ELSE FetchChapterIMGAfterGet(r)

PrefixOf(o) ==
    IF o = "manga" THEN "An error occurred while fetching manga: "
    ELSE "An error occurred while fetching Manga Payload: "

\* How a call ends for the outcome of its try block.
Ended(o, out) == IF out.kind = "raise" THEN Raise(OuterExcept(PrefixOf(o), out.exc)) ELSE out

InitConcurrent ==
    /\ pc = "idle"
    /\ op = "none"
    /\ args = <<>>
    /\ sent = <<>>
    /\ resp = NoResp
    /\ outcome = NoOutcome
    /\ shaped = <<>>
    /\ openSessions = 0
    /\ jsonCalls = 0
    /\ site = [p \in Sites |-> NewSite]
    /\ root \in {RootUnconfigured, RootByApplication}
    /\ rootAccess = NoAccess

\* Search() / manga(): __init__ calls logging.basicConfig(level=logging.INFO),
\* which reads the handlers of the root logger and, when there are none,
\* writes its handlers and level.
Construct ==
    \E p \in Sites, cls \in {"Search", "manga"} :
        /\ site[p].pc = "new"
        /\ root' = basicConfig(root)
        /\ rootAccess' = [writers |-> IF root' # root THEN rootAccess.writers \cup {p}
                                      ELSE rootAccess.writers,
                          readers |-> rootAccess.readers \cup {p}]
        /\ site' = [site EXCEPT ![p].pc = "idle", ![p].cls = cls]
        /\ UNCHANGED callVars

\* The site invokes the operation: logging.info (or logging.error in the
\* outer handler) reads the level and the handlers of the root logger; the
\* call issues its GET and suspends, or fails while building the URL.
ConcurrentCall ==
    \E p \in Sites :
        /\ site[p].pc = "idle"
        /\ \E c \in ConcurrentCalls(site[p].cls) :
              LET built == UrlOf(c.op, c.args)
              IN  site' = [site EXCEPT ![p] =
                              [pc |-> IF built.ok THEN "await" ELSE "done",
                               cls |-> site[p].cls,
                               op |-> c.op,
                               args |-> c.args,
                               sent |-> IF built.ok THEN <<built.val>> ELSE <<>>,
                               resp |-> NoResp,
                               outcome |-> IF built.ok THEN NoOutcome
                                           ELSE Ended(c.op, Raise(built.exc))]]
        /\ rootAccess' = [rootAccess EXCEPT !.readers = @ \cup {p}]
        /\ UNCHANGED <<root, callVars>>

\* The response of a site's request arrives and its handler runs to the
\* end, logging the result.
ConcurrentResponse ==
    \E p \in Sites :
        /\ site[p].pc = "await"
        /\ \E r \in ConcurrentResponses(site[p].op) :
              site' = [site EXCEPT ![p].pc = "done",
                                   ![p].resp = r,
                                   ![p].outcome = Ended(site[p].op, AfterGetOf(site[p].op, r).out)]
        /\ rootAccess' = [rootAccess EXCEPT !.readers = @ \cup {p}]
        /\ UNCHANGED <<root, callVars>>

NextConcurrent ==
    \/ Construct
    \/ ConcurrentCall
    \/ ConcurrentResponse

SpecConcurrent == InitConcurrent /\ [][NextConcurrent]_vars

-----------------------------------------------------------------------------
(* Properties *)

KnownRatings == {"all", "safe", "suggestive", "erotica"}

\* AdvanceSearch was given an author name.
AuthorGiven == op = "AdvanceSearch" /\ args.SearchByAuthor # None

\* The number of GETs of a call that reaches its own request: the author
\* lookup, if any, and the request of the operation itself.
MainGets == IF AuthorGiven THEN 2 ELSE 1

\* The call has ended after the answer to its own request (not to the nested
\* author lookup).
MainAnswered == pc = "done" /\ resp # NoResp /\ Len(sent) = MainGets

\* The last response is a success: status 200, a JSON body, no error envelope.
RespOk ==
    /\ resp # NoResp
    /\ resp.status = 200
    /\ resp.body.json
    /\ resp.body.val.result # "error"

\* The author lookup's response r carries an empty `data` array.
ZeroAuthors(r) ==
    /\ r.status = 200
    /\ r.body.json
    /\ r.body.val.result # "error"
    /\ r.body.val.data = <<>>

\* The manga items of the last response, as a sequence.
MainItems ==
    IF op = "RandomSearch" THEN <<resp.body.val.data>> ELSE resp.body.val.data

IsSearchOp == op \in {"manga", "author", "GroupSearch", "RandomSearch", "AdvanceSearch"}

\* C1 (as stated): for a successful response whose data array holds n items,
\* Search.manga and Search.AdvanceSearch return a list of exactly n records,
\* the i-th shaped from the i-th item; n = 0 gives an empty list.
C1_ReturnsAllRecords ==
    (/\ MainAnswered
     /\ op \in {"manga", "AdvanceSearch"}
     /\ RespOk
     /\ \A i \in 1..Len(resp.body.val.data) : ShapeManga(resp.body.val.data[i]).ok)
    => /\ outcome.kind = "return"
       /\ outcome.type = "list"
       /\ Len(outcome.value) = Len(resp.body.val.data)
       /\ \A i \in 1..Len(resp.body.val.data) :
             outcome.value[i] = ShapeManga(resp.body.val.data[i]).val

\* C2 (as stated): a response whose status is not 200 makes the call fail
\* with a ConnectionError as the exception the caller observes.
C2_CallerSeesConnectionError ==
    (pc = "done" /\ resp # NoResp /\ resp.status # 200)
    => (outcome.kind = "raise" /\ outcome.exc.cls = "ConnectionError")

\* C3 (as stated): a status-200 response whose body is not JSON makes the
\* call fail with a JSONError as the exception the caller observes.
C3_CallerSeesJSONError ==
    (pc = "done" /\ resp # NoResp /\ resp.status = 200 /\ ~resp.body.json)
    => (outcome.kind = "raise" /\ outcome.exc.cls = "JSONError")

\* C4 (as stated): in the search operations, a status-200 response with
\* result = "error" makes the call fail with an error whose status, title,
\* detail and id are those of the first entry of `errors`.
C4_CallerSeesErrorFields ==
    (/\ pc = "done"
     /\ IsSearchOp
     /\ resp # NoResp
     /\ resp.status = 200
     /\ resp.body.json
     /\ resp.body.val.result = "error")
    => /\ outcome.kind = "raise"
       /\ Len(outcome.exc.args) = 4
       /\ outcome.exc.args = << <<resp.body.val.errors[1].status>>,
                                <<resp.body.val.errors[1].title>>,
                                <<resp.body.val.errors[1].detail>>,
                                <<resp.body.val.errors[1].id>> >>

\* C5 (as stated): given a content rating outside all/safe/suggestive/
\* erotica, manga, RandomSearch and AdvanceSearch issue their request with a
\* query that has no contentRating[] clause, and the value is not an error.
C5_UnknownRatingPassesThrough ==
    /\ (op \in {"manga", "RandomSearch"} /\ args.contentRating \notin KnownRatings)
       => (Len(sent) = 1 /\ ClausesWith(sent[1], "contentRating[]=") = <<>>)
    /\ (op = "AdvanceSearch" /\ args.contentRating \notin KnownRatings /\ pc = "await")
       => ClausesWith(sent[Len(sent)], "contentRating[]=") = <<>>

\* The sort table as C6 lists it: code -> <<field, direction>>.
C6_Table ==
    [c \in 2..13 |->
        CASE c = 2 -> <<"latestUploadedChapter", "desc">>
          [] c = 3 -> <<"latestUploadedChapter", "asc">>
          [] c = 4 -> <<"title", "asc">>
          [] c = 5 -> <<"title", "desc">>
          [] c = 6 -> <<"rating", "desc">>
          [] c = 7 -> <<"rating", "asc">>
          [] c = 8 -> <<"followedCount", "desc">>
          [] c = 9 -> <<"followedCount", "asc">>
          [] c = 10 -> <<"createdAt", "desc">>
          [] c = 11 -> <<"createdAt", "asc">>
          [] c = 12 -> <<"year", "asc">>
          [] c = 13 -> <<"year", "desc">>]

\* C6 (as stated): the URL of the manga search of AdvanceSearch has no
\* order[...] clause for sort code 1 and for an absent code, and for a code
\* in 2..13 exactly one clause, of the exact form order[field]=direction.
C6_OrderClauseExact ==
    (op = "AdvanceSearch" /\ pc \in {"await", "done"} /\ Len(sent) = MainGets)
    => LET orders == ClausesWith(sent[MainGets], "order[")
       IN  IF args.Shortby \in {None, Some(1)} THEN orders = <<>>
           ELSE IF args.Shortby[1] \in 2..13
                THEN orders = << <<"order[", C6_Table[args.Shortby[1]][1],
                                   "]=", C6_Table[args.Shortby[1]][2]>> >>
           ELSE TRUE

\* C7: when the author lookup of AdvanceSearch answers with zero authors, the
\* call ends at once with a FetchErrorr that wraps the failed extraction of
\* the author id, and no further GET is issued: the author lookup is the only
\* request made.
C7_ZeroAuthorsFailsBeforeSearch ==
    [][(pc = "awaitAuthor" /\ ZeroAuthors(resp'))
       => /\ pc' = "done"
          /\ outcome'.kind = "raise"
          /\ outcome'.exc.cls = "FetchErrorr"
          /\ outcome'.exc.context # None
          /\ outcome'.exc.context[1].cls = "FetchErrorr"
          /\ sent' = sent
          /\ sent' = <<AuthorUrl(args.SearchByAuthor[1], Some(1))>>]_vars

\* A call of AdvanceSearch with an author name that failed on an empty
\* author list, one GET issued.
C7_Witness ==
    /\ pc = "done"
    /\ AuthorGiven
    /\ ZeroAuthors(resp)
    /\ Len(sent) = 1
    /\ outcome.kind = "raise"

OfType(rels, type) == SelectSeq(rels, LAMBDA rel : rel.type = type)

\* C9: every manga record shaped from an item with cover_art relationships
\* has cover URLs built from the fileName of the first of them, and every
\* chapter record shaped from an item with scanlation_group relationships has
\* the name of the first of them as PublisherName.
C9_FirstRelationshipWins ==
    (MainAnswered /\ RespOk)
    => /\ op \in {"manga", "RandomSearch", "AdvanceSearch"} =>
            \A i \in 1..Len(shaped) :
                LET item == MainItems[i]
                    covers == OfType(item.relationships, "cover_art")
                IN  Len(covers) >= 1 =>
                      /\ shaped[i].CoverLarge =
                            Some(<<"https://mangadex.org/covers/", item.id, "/",
                                   covers[1].attributes.fileName>>)
                      /\ shaped[i].CoverSmall =
                            Some(<<"https://mangadex.org/covers/", item.id, "/",
                                   covers[1].attributes.fileName, ".256.jpg">>)
       /\ op = "FetchChapter" =>
            \A i \in 1..Len(shaped) :
                LET groups == OfType(resp.body.val.data[i].relationships,
                                     "scanlation_group")
                IN  Len(groups) >= 1 =>
                      shaped[i].PublisherName = Some(groups[1].attributes.name)

\* Search.manga returned the record of an item whose two cover_art entries
\* name different files, the first one not leading the array.
C9_Witness ==
    /\ MainAnswered
    /\ RespOk
    /\ op = "manga"
    /\ outcome.kind = "return"
    /\ \E i \in 1..Len(shaped) :
          /\ MainItems[i].relationships = <<AuthorRel, Cover("c1.jpg"), Cover("c2.jpg")>>
          /\ shaped[i].CoverLarge =
                Some(<<"https://mangadex.org/covers/", MainItems[i].id, "/", "c1.jpg">>)

\* C10 (as stated): in manga, RandomSearch and AdvanceSearch an item whose
\* attributes lack year, altTitles or description is shaped into a record
\* with year = None, altTitles = [] and description = "" respectively, and
\* the call does not fail.
C10_MissingFieldsDefault ==
    (/\ MainAnswered
     /\ op \in {"manga", "RandomSearch", "AdvanceSearch"}
     /\ RespOk
     /\ Len(MainItems) >= 1
     /\ \A i \in 1..Len(MainItems) : "en" \in DOMAIN MainItems[i].attributes.title)
    => /\ outcome.kind = "return"
       /\ Len(shaped) = Len(MainItems)
       /\ \A i \in 1..Len(MainItems) :
             LET a == MainItems[i].attributes
             IN  /\ "year" \notin DOMAIN a => shaped[i].year = None
                 /\ "altTitles" \notin DOMAIN a => shaped[i].altTitles = <<>>
                 /\ "description" \notin DOMAIN a => shaped[i].description = ""

\* The at-home response of a finished FetchChapterIMG call carries baseUrl,
\* chapter.hash and chapter.data.
AtHomeOk ==
    /\ op = "FetchChapterIMG"
    /\ pc = "done"
    /\ resp.status = 200
    /\ resp.body.json
    /\ resp.body.val.result # "error"
    /\ {"baseUrl", "chapter"} \subseteq DOMAIN resp.body.val
    /\ {"hash", "data"} \subseteq DOMAIN resp.body.val.chapter

\* C11: for a successful at-home response with baseUrl B, chapter.hash H and
\* chapter.data = [f1..fn], FetchChapterIMG returns a list of the same length
\* and order whose i-th element is B + "/data/" + H + "/" + fi.
C11_ImageUrlsInOrder ==
    AtHomeOk =>
        LET B == resp.body.val.baseUrl
            H == resp.body.val.chapter.hash
            data == resp.body.val.chapter.data
        IN  /\ outcome.kind = "return"
            /\ outcome.type = "list"
            /\ Len(outcome.value) = Len(data)
            /\ \A i \in 1..Len(data) : outcome.value[i] = <<B, "/data/", H, "/", data[i]>>

\* C11 happens: two different pages came back under base URL https://Y and
\* hash K, and the list was returned.
C11_Witness ==
    /\ AtHomeOk
    /\ resp.body.val.baseUrl = "https://Y"
    /\ resp.body.val.chapter.data = <<"b.png", "a.png">>
    /\ outcome.kind = "return"
    /\ outcome.value[2] = <<"https://Y", "/data/", "K", "/", "a.png">>

\* C12: no session opened by a call is still open once the call has returned
\* or raised, whatever the exit path; while a call is suspended at a request
\* exactly one session is open.
C12_SessionsReleased ==
    /\ pc \in {"idle", "done"} => openSessions = 0
    /\ pc \in {"await", "awaitAuthor"} => openSessions = 1

\* C12 happens: an AdvanceSearch call ended in the failure of its nested
\* author lookup, after that lookup had opened a session.
C12_Witness ==
    /\ pc = "done"
    /\ AuthorGiven
    /\ Len(sent) = 1
    /\ resp # NoResp
    /\ resp.status = 404
    /\ outcome.kind = "raise"
    /\ openSessions = 0

\* C13 (as stated): in the records returned by author and GroupSearch,
\* social_media has an entry for a platform field if and only if the server's
\* value for it is non-empty: an absent field, a null and the empty string
\* are left out.
C13_SocialMediaIffNonEmpty ==
    (/\ MainAnswered
     /\ op \in {"author", "GroupSearch"}
     /\ RespOk
     /\ outcome.kind = "return")
    => /\ Len(outcome.value) = Len(resp.body.val.data)
       /\ \A i \in 1..Len(outcome.value) :
             LET attrs == resp.body.val.data[i].attributes
                 fields == IF op = "author" THEN AuthorSocialMedia ELSE GroupSocialMedia
             IN  \A f \in Range(fields) :
                    (f \in DOMAIN outcome.value[i].social_media)
                    <=> (f \in DOMAIN attrs /\ attrs[f] # None /\ attrs[f] # Some(""))

\* The feed response of a finished FetchChapter call is a success.
FeedOk ==
    /\ op = "FetchChapter"
    /\ pc = "done"
    /\ RespOk
    /\ "data" \in DOMAIN resp.body.val

\* The value FetchChapter is to give for an attribute: the server's string,
\* or "None" for an absent key or a null.
StringOrNone(attrs, k) ==
    IF k \in DOMAIN attrs /\ attrs[k] # None THEN attrs[k] ELSE Some("None")

\* C14 (as stated): for every chapter item FetchChapter returns, CHNum, VolNum
\* and TLLang are the server's string or the literal "None", never null, for
\* an absent key and for a null value alike; PublisherName is none exactly
\* when the item has no scanlation_group relationship.
C14_ChapterFieldsNeverNull ==
    FeedOk
    => /\ outcome.kind = "return"
       /\ Len(outcome.value) = Len(resp.body.val.data)
       /\ \A i \in 1..Len(outcome.value) :
             LET item == resp.body.val.data[i]
                 rec == outcome.value[i]
             IN  /\ rec.CHNum = StringOrNone(item.attributes, "chapter")
                 /\ rec.VolNum = StringOrNone(item.attributes, "volume")
                 /\ rec.TLLang = StringOrNone(item.attributes, "translatedLanguage")
                 /\ (rec.PublisherName = None)
                    <=> (OfType(item.relationships, "scanlation_group") = <<>>)

\* C15 (as stated): FetchChapter and FetchChapterIMG, given a status-200
\* response whose parsed body has result = "error", fail; they never return a
\* list for such a response.
C15_ErrorEnvelopeFails ==
    (/\ op \in {"FetchChapter", "FetchChapterIMG"}
     /\ pc = "done"
     /\ resp.status = 200
     /\ resp.body.json
     /\ resp.body.val.result = "error")
    => outcome.kind = "raise"

\* The sort code of the call is one AdvanceSearch hands to the lookup and the
\* table does not hold.
SortUnresolved(a) ==
    /\ Truthy(a.Shortby)
    /\ a.Shortby # Some(1)
    /\ a.Shortby[1] \notin DOMAIN ShortTypes

\* One of the tag names of the call has no entry in the tag table.
TagUnresolved(a) ==
    \/ a.TagName.kind = "str" /\ a.TagName.s # "" /\ a.TagName.s \notin DOMAIN TagIds
    \/ a.TagName.kind = "list" /\ \E i \in 1..Len(a.TagName.l) : a.TagName.l[i] \notin DOMAIN TagIds

\* The exception e, or the exception it replaced, is of class cls.
RaisedFrom(e, cls) == e.cls = cls \/ (e.context # None /\ e.context[1].cls = cls)

\* C16 (as stated): in AdvanceSearch, when a tag name or a sort code cannot be
\* resolved by the lookup tables, no HTTP request at all is issued by the
\* call, not even the author lookup of a call that also names an author, and
\* the call fails with InvalidParameter.
C16_InvalidParameterBeforeAnyRequest ==
    (op = "AdvanceSearch" /\ (SortUnresolved(args) \/ TagUnresolved(args)))
    => /\ sent = <<>>
       /\ pc = "done" => (outcome.kind = "raise" /\ RaisedFrom(outcome.exc, "InvalidParameter"))

\* C17 (as stated): AdvanceSearch given a sort code that is not in 1..13 (0
\* for one) fails; it never issues the manga search request with the sort
\* clause left out.
C17_SortCodeOutsideTableFails ==
    (op = "AdvanceSearch" /\ args.Shortby # None /\ args.Shortby[1] \notin 1..13)
    => /\ \A i \in 1..Len(sent) : sent[i][1] # "https://api.mangadex.org/manga?"
       /\ pc = "done" => outcome.kind = "raise"

\* C18 (as stated): in every operation the status check precedes parsing: a
\* response whose status is not 200 is never JSON-parsed and no record is
\* shaped from it.
C18_StatusCheckPrecedesParsing ==
    [][(pc \in {"await", "awaitAuthor"} /\ pc' # pc /\ resp'.status # 200)
       => (jsonCalls' = jsonCalls /\ shaped' = <<>>)]_vars

C19_NoSharedState ==
    /\ \A p \in Sites :
          /\ site[p].pc \in {"await", "done"}
             => LET built == UrlOf(site[p].op, site[p].args)
                IN  site[p].sent = IF built.ok THEN <<built.val>> ELSE <<>>
          /\ (site[p].pc = "done" /\ site[p].resp # NoResp)
             => site[p].outcome = Ended(site[p].op, AfterGetOf(site[p].op, site[p].resp).out)
    /\ \A p \in Sites, q \in Sites :
          p # q => ~(p \in rootAccess.writers /\ q \in rootAccess.readers \cup rootAccess.writers)

====
